---------------------------- MODULE Spec2Model ----------------------------
(***************************************************************************)
(* tyl-logging: the LogRecord data model, the LogLevel order, the console  *)
(* and JSON adapters writing to standard output, and the environment-aware *)
(* LoggingConfig.                                                          *)
(*                                                                         *)
(* Text is modelled as a sequence of one-character strings, Option<T> as a *)
(* sequence of length 0 (None) or 1 (Some), HashMap<String, Value> as a    *)
(* function whose domain is the set of keys present, and serde_json::Value *)
(* as a record tagged by its kind.                                         *)
(***************************************************************************)
EXTENDS Integers, Sequences, FiniteSets, TLC

VARIABLES
    record,     \* Option<LogRecord>: the record the caller currently holds
    added,      \* history: the add_field calls made on that record, in order
    stdout,     \* standard output: the texts written to it so far, one per write
    last,       \* the most recent call and its arguments
    env,        \* the process environment: variable name -> Option<String>
    config,     \* Option<LoggingConfig>: the config the caller currently holds
    built,      \* history: the constructor and builder calls made on that config
    cmp,        \* the most recent LogLevel comparison and its result
    filtering,  \* Option<FilteringLogger>: its min_level (its inner is logs)
    logs,       \* the MemoryLogger's Vec<StoredLog>
    logged      \* history: the records passed to FilteringLogger::log, in order

vars ==
    <<record, added, stdout, last, env, config, built, cmp, filtering, logs, logged>>

---------------------------------------------------------------------------
(* Bounds of the model.                                                    *)

MaxAdds == 2        \* add_field calls followed on one record
MaxLogs == 1        \* log calls followed on one record
MaxBuilds == 2      \* with_level / with_environment calls followed on one config
MaxFiltered == 3    \* log calls followed on one FilteringLogger
MaxVars == 3        \* environment variables set at the same time

---------------------------------------------------------------------------
(* Option<T>.                                                              *)

None == <<>>
Some(x) == <<x>>
IsSome(o) == Len(o) = 1
Unwrap(o) == o[1]

---------------------------------------------------------------------------
(* Characters and text.                                                    *)

LF == "\n"
QUOTE == "\""
BSLASH == "\\"

UpperLetters ==
    << "A", "B", "C", "D", "E", "F", "G", "H", "I", "J", "K", "L", "M",
       "N", "O", "P", "Q", "R", "S", "T", "U", "V", "W", "X", "Y", "Z" >>

LowerLetters ==
    << "a", "b", "c", "d", "e", "f", "g", "h", "i", "j", "k", "l", "m",
       "n", "o", "p", "q", "r", "s", "t", "u", "v", "w", "x", "y", "z" >>

Digits == <<"0", "1", "2", "3", "4", "5", "6", "7", "8", "9">>

\* The characters the model's texts are made of, in ascending byte order.
Ascii ==
    <<LF, " ", QUOTE, ",", "-">> \o Digits \o <<":">> \o UpperLetters
    \o <<"[", BSLASH, "]", "_">> \o LowerLetters \o <<"{", "}">>

Byte(c) == CHOOSE i \in 1..Len(Ascii) : Ascii[i] = c

\* Display for an unsigned integer: its decimal digits, no sign, no padding.
RECURSIVE Decimal(_)
Decimal(n) ==
    IF n < 10 THEN <<Digits[n + 1]>>
    ELSE Decimal(n \div 10) \o <<Digits[(n % 10) + 1]>>

\* char::to_lowercase and str::to_lowercase, on the characters above.
char_to_lowercase(c) ==
    IF \E i \in 1..Len(UpperLetters) : UpperLetters[i] = c
    THEN LowerLetters[CHOOSE i \in 1..Len(UpperLetters) : UpperLetters[i] = c]
    ELSE c

to_lowercase(s) == [i \in 1..Len(s) |-> char_to_lowercase(s[i])]

\* char::to_uppercase and str::to_uppercase, on the characters above.
char_to_uppercase(c) ==
    IF \E i \in 1..Len(LowerLetters) : LowerLetters[i] = c
    THEN UpperLetters[CHOOSE i \in 1..Len(LowerLetters) : LowerLetters[i] = c]
    ELSE c

to_uppercase(s) == [i \in 1..Len(s) |-> char_to_uppercase(s[i])]

\* Ord for String: lexicographic by bytes.
RECURSIVE StrLess(_, _)
StrLess(s, t) ==
    IF t = <<>> THEN FALSE
    ELSE IF s = <<>> THEN TRUE
    ELSE IF s[1] # t[1] THEN Byte(s[1]) < Byte(t[1])
    ELSE StrLess(Tail(s), Tail(t))

---------------------------------------------------------------------------
(* LogLevel (record.rs).                                                   *)

LogLevel == {"Trace", "Debug", "Info", "Warn", "Error"}

\* A variant with Info and Warn declared in the other order.
Discriminant_swapped(level) ==
    CASE level = "Trace" -> 0
      [] level = "Debug" -> 1
      [] level = "Warn" -> 2
      [] level = "Info" -> 3
      [] level = "Error" -> 4

\* The explicit discriminants of the enum; the derived PartialOrd, Ord,
\* PartialEq and Eq compare them.
Discriminant(level) ==
    CASE level = "Trace" -> 0
      [] level = "Debug" -> 1
      [] level = "Info" -> 2
      [] level = "Warn" -> 3
      [] level = "Error" -> 4

LogLevel_cmp(op, a, b) ==
    CASE op = "gt" -> Discriminant(a) > Discriminant(b)
      [] op = "ge" -> Discriminant(a) >= Discriminant(b)
      [] op = "lt" -> Discriminant(a) < Discriminant(b)
      [] op = "le" -> Discriminant(a) <= Discriminant(b)
      [] op = "eq" -> Discriminant(a) = Discriminant(b)
      [] op = "ne" -> Discriminant(a) # Discriminant(b)

CmpOps == {"gt", "ge", "lt", "le", "eq", "ne"}

---------------------------------------------------------------------------
(* serde_json::Value, as far as the records of the model use it.           *)

Null == [t |-> "null"]
Num(n) == [t |-> "num", n |-> n]
Str(s) == [t |-> "str", s |-> s]
Obj(o) == [t |-> "obj", o |-> o]

HashMap_new == [k \in {} |-> Null]

\* A variant that keeps the value already stored under the key.
HashMap_insert_keep(m, key, value) ==
    [k \in (DOMAIN m) \cup {key} |-> IF k \in DOMAIN m THEN m[k] ELSE value]

HashMap_insert(m, key, value) ==
    [k \in (DOMAIN m) \cup {key} |-> IF k = key THEN value ELSE m[k]]

---------------------------------------------------------------------------
(* LogRecord (record.rs).                                                  *)

\* A variant that starts every record at the default level.
LogRecord_new_info(level, message, now) ==
    [ level |-> "Info",
      message |-> message,
      timestamp |-> now,
      fields |-> HashMap_new,
      request_id |-> None ]

LogRecord_new(level, message, now) ==
    [ level |-> level,
      message |-> message,
      timestamp |-> now,
      fields |-> HashMap_new,
      request_id |-> None ]

\* A variant that rebuilds the record around the new field map and loses
\* the correlation id.
add_field_rebuild(r, key, value) ==
    [r EXCEPT !.fields = HashMap_insert(r.fields, key, value),
              !.request_id = None]

add_field(r, key, value) ==
    [r EXCEPT !.fields = HashMap_insert(r.fields, key, value)]

\* A variant that sets the id only when none is set yet.
with_request_id_once(r, request_id) ==
    IF IsSome(r.request_id) THEN r
    ELSE [r EXCEPT !.request_id = Some(request_id)]

with_request_id(r, request_id) ==
    [r EXCEPT !.request_id = Some(request_id)]

---------------------------------------------------------------------------
(* utils.rs.                                                               *)

format_timestamp(timestamp) == Decimal(timestamp)

format_level(level) ==
    CASE level = "Trace" -> <<"T", "R", "A", "C", "E">>
      [] level = "Debug" -> <<"D", "E", "B", "U", "G">>
      [] level = "Info" -> <<"I", "N", "F", "O">>
      [] level = "Warn" -> <<"W", "A", "R", "N">>
      [] level = "Error" -> <<"E", "R", "R", "O", "R">>

---------------------------------------------------------------------------
(* serde_json: building a Value and printing it (compact form, the keys of *)
(* an object in the ascending order of its BTreeMap).                      *)

\* A string's characters as they stand between the quotes of a JSON string.
Json_escape(c) ==
    IF c = QUOTE THEN <<BSLASH, QUOTE>>
    ELSE IF c = BSLASH THEN <<BSLASH, BSLASH>>
    ELSE IF c = LF THEN <<BSLASH, "n">>
    ELSE <<c>>

RECURSIVE Json_escaped(_)
Json_escaped(s) ==
    IF s = <<>> THEN <<>> ELSE Json_escape(s[1]) \o Json_escaped(Tail(s))

Json_string(s) == <<QUOTE>> \o Json_escaped(s) \o <<QUOTE>>

RECURSIVE SortedKeys(_)
SortedKeys(S) ==
    IF S = {} THEN <<>>
    ELSE LET least == CHOOSE x \in S : \A y \in S \ {x} : StrLess(x, y)
         IN  <<least>> \o SortedKeys(S \ {least})

RECURSIVE Json_display(_)
RECURSIVE Json_members(_, _)
Json_members(o, keys) ==
    IF keys = <<>> THEN <<>>
    ELSE Json_string(keys[1]) \o <<":">> \o Json_display(o[keys[1]])
         \o (IF Len(keys) > 1 THEN <<",">> ELSE <<>>)
         \o Json_members(o, Tail(keys))

Json_display(v) ==
    CASE v.t = "null" -> <<"n", "u", "l", "l">>
      [] v.t = "num" -> Decimal(v.n)
      [] v.t = "str" -> Json_string(v.s)
      [] v.t = "obj" -> <<"{">> \o Json_members(v.o, SortedKeys(DOMAIN v.o)) \o <<"}">>

\* Serialize for Option<&str>: null or the string.
Json_option(o) == IF IsSome(o) THEN Str(Unwrap(o)) ELSE Null

---------------------------------------------------------------------------
(* The adapters (loggers/console.rs, loggers/json.rs).                     *)

K_timestamp == <<"t", "i", "m", "e", "s", "t", "a", "m", "p">>
K_level == <<"l", "e", "v", "e", "l">>
K_message == <<"m", "e", "s", "s", "a", "g", "e">>
K_fields == <<"f", "i", "e", "l", "d", "s">>
K_request_id == <<"r", "e", "q", "u", "e", "s", "t", "_", "i", "d">>

\* What println! hands to standard output: the formatted text and a line feed.
println(text) == text \o <<LF>>

\* A variant that appends the correlation id when the record carries one.
ConsoleLogger_log_id(r) ==
    println(<<"[">> \o format_timestamp(r.timestamp) \o <<"]", " ">>
            \o format_level(r.level) \o <<":", " ">> \o r.message
            \o (IF IsSome(r.request_id) THEN <<" ">> \o Unwrap(r.request_id)
                ELSE <<>>))

ConsoleLogger_log(r) ==
    println(<<"[">> \o format_timestamp(r.timestamp) \o <<"]", " ">>
            \o format_level(r.level) \o <<":", " ">> \o r.message)

\* A variant that leaves request_id out when the record carries none.
json_record_skip_none(r) ==
    Obj( (K_timestamp :> Num(r.timestamp))
      @@ (K_level :> Str(format_level(r.level)))
      @@ (K_message :> Str(r.message))
      @@ (K_fields :> Obj(r.fields))
      @@ (IF IsSome(r.request_id)
          THEN (K_request_id :> Str(Unwrap(r.request_id)))
          ELSE HashMap_new) )

json_record(r) ==
    Obj( (K_timestamp :> Num(r.timestamp))
      @@ (K_level :> Str(format_level(r.level)))
      @@ (K_message :> Str(r.message))
      @@ (K_fields :> Obj(r.fields))
      @@ (K_request_id :> Json_option(r.request_id)) )

JsonLogger_log(r) == println(Json_display(json_record(r)))

---------------------------------------------------------------------------
(* Environment and LoggingConfig (config.rs).                              *)

Environment == {"Development", "Production", "Test"}

S_development == <<"d", "e", "v", "e", "l", "o", "p", "m", "e", "n", "t">>
S_production == <<"p", "r", "o", "d", "u", "c", "t", "i", "o", "n">>
S_prod == <<"p", "r", "o", "d">>
S_test == <<"t", "e", "s", "t">>
S_testing == <<"t", "e", "s", "t", "i", "n", "g">>

\* std::env::var(name): Ok(value) when the variable is set, Err otherwise.
env_var(e, name) == e[name]

unwrap_or(o, default) == IF IsSome(o) THEN Unwrap(o) ELSE default

\* A variant that matches the value as it is written.
Environment_from_env_exact(e) ==
    LET value == unwrap_or(env_var(e, "ENVIRONMENT"), S_development)
    IN  IF value \in {S_production, S_prod} THEN "Production"
        ELSE IF value \in {S_test, S_testing} THEN "Test"
        ELSE "Development"

Environment_from_env(e) ==
    LET value == to_lowercase(unwrap_or(env_var(e, "ENVIRONMENT"), S_development))
    IN  IF value \in {S_production, S_prod} THEN "Production"
        ELSE IF value \in {S_test, S_testing} THEN "Test"
        ELSE "Development"

\* A variant that does not look at the process environment.
LoggingConfig_new_default(service_name, e) ==
    [ service_name |-> service_name,
      level |-> "Info",
      environment |-> "Development" ]

LoggingConfig_new(service_name, e) ==
    [ service_name |-> service_name,
      level |-> "Info",
      environment |-> Environment_from_env(e) ]

with_level(c, level) == [c EXCEPT !.level = level]

with_environment(c, environment) == [c EXCEPT !.environment = environment]

---------------------------------------------------------------------------
(* ConfigPlugin for LoggingConfig (config.rs).                             *)

\* ConfigResult<()>: Ok(()) or a TylError of some kind with its message.
Ok == [ok |-> TRUE]

TylError_validation(field, message) ==
    [ok |-> FALSE, kind |-> "validation", message |-> <<field, message>>]

TylError_configuration(prefix, value) ==
    [ok |-> FALSE, kind |-> "configuration", message |-> <<prefix, value>>]

\* Result::or_else(|_| other): the first when it is Ok, else the other.
or_else(first, other) == IF IsSome(first) THEN first ELSE other

\* A variant that accepts every service name.
validate_any(c) == Ok

validate(c) ==
    IF c.service_name = <<>>
    THEN TylError_validation("service_name", "cannot be empty")
    ELSE Ok

\* TYL_LOG_LEVEL or LOG_LEVEL
level_var(e) == or_else(env_var(e, "TYL_LOG_LEVEL"), env_var(e, "LOG_LEVEL"))

\* TYL_SERVICE_NAME or SERVICE_NAME
service_name_var(e) ==
    or_else(env_var(e, "TYL_SERVICE_NAME"), env_var(e, "SERVICE_NAME"))

\* TYL_ENVIRONMENT or ENVIRONMENT
environment_var(e) ==
    or_else(env_var(e, "TYL_ENVIRONMENT"), env_var(e, "ENVIRONMENT"))

\* A variant that falls back to Info on a value it does not know.
merge_level_lenient(c, e) ==
    IF ~IsSome(level_var(e)) THEN [config |-> c, result |-> Ok]
    ELSE LET upper == to_uppercase(Unwrap(level_var(e)))
         IN  IF upper = <<"T", "R", "A", "C", "E">>
             THEN [config |-> [c EXCEPT !.level = "Trace"], result |-> Ok]
             ELSE IF upper = <<"D", "E", "B", "U", "G">>
             THEN [config |-> [c EXCEPT !.level = "Debug"], result |-> Ok]
             ELSE IF upper \in {<<"W", "A", "R", "N">>,
                                <<"W", "A", "R", "N", "I", "N", "G">>}
             THEN [config |-> [c EXCEPT !.level = "Warn"], result |-> Ok]
             ELSE IF upper = <<"E", "R", "R", "O", "R">>
             THEN [config |-> [c EXCEPT !.level = "Error"], result |-> Ok]
             ELSE [config |-> [c EXCEPT !.level = "Info"], result |-> Ok]

\* The first block of merge_env: the log level.
merge_level(c, e) ==
    IF ~IsSome(level_var(e)) THEN [config |-> c, result |-> Ok]
    ELSE LET level_str == Unwrap(level_var(e))
             upper == to_uppercase(level_str)
         IN  IF upper = <<"T", "R", "A", "C", "E">>
             THEN [config |-> [c EXCEPT !.level = "Trace"], result |-> Ok]
             ELSE IF upper = <<"D", "E", "B", "U", "G">>
             THEN [config |-> [c EXCEPT !.level = "Debug"], result |-> Ok]
             ELSE IF upper = <<"I", "N", "F", "O">>
             THEN [config |-> [c EXCEPT !.level = "Info"], result |-> Ok]
             ELSE IF upper \in {<<"W", "A", "R", "N">>,
                                <<"W", "A", "R", "N", "I", "N", "G">>}
             THEN [config |-> [c EXCEPT !.level = "Warn"], result |-> Ok]
             ELSE IF upper = <<"E", "R", "R", "O", "R">>
             THEN [config |-> [c EXCEPT !.level = "Error"], result |-> Ok]
             ELSE [config |-> c,
                   result |-> TylError_configuration("invalid log level: ", level_str)]

\* The second block of merge_env: the service name.
merge_service_name(c, e) ==
    IF IsSome(service_name_var(e))
    THEN [config |-> [c EXCEPT !.service_name = Unwrap(service_name_var(e))],
          result |-> Ok]
    ELSE [config |-> c, result |-> Ok]

\* A variant that falls back to Development on a value it does not know.
merge_environment_lenient(c, e) ==
    IF ~IsSome(environment_var(e)) THEN [config |-> c, result |-> Ok]
    ELSE LET lower == to_lowercase(Unwrap(environment_var(e)))
         IN  IF lower \in {S_production, S_prod}
             THEN [config |-> [c EXCEPT !.environment = "Production"], result |-> Ok]
             ELSE IF lower \in {S_test, S_testing}
             THEN [config |-> [c EXCEPT !.environment = "Test"], result |-> Ok]
             ELSE [config |-> [c EXCEPT !.environment = "Development"], result |-> Ok]

\* The third block of merge_env: the runtime environment.
merge_environment(c, e) ==
    IF ~IsSome(environment_var(e)) THEN [config |-> c, result |-> Ok]
    ELSE LET env_str == Unwrap(environment_var(e))
             lower == to_lowercase(env_str)
         IN  IF lower \in {S_development, <<"d", "e", "v">>}
             THEN [config |-> [c EXCEPT !.environment = "Development"], result |-> Ok]
             ELSE IF lower \in {S_production, S_prod}
             THEN [config |-> [c EXCEPT !.environment = "Production"], result |-> Ok]
             ELSE IF lower \in {S_test, S_testing}
             THEN [config |-> [c EXCEPT !.environment = "Test"], result |-> Ok]
             ELSE [config |-> c,
                   result |-> TylError_configuration("invalid environment: ", env_str)]

\* A variant that validates all three values before it writes any of them.
merge_env_all_or_nothing(c, e) ==
    LET a == merge_level(c, e)
        b == merge_service_name(a.config, e)
        d == merge_environment(b.config, e)
    IN  IF ~a.result.ok THEN a
        ELSE IF ~d.result.ok THEN [config |-> c, result |-> d.result]
        ELSE d

\* merge_env: the three blocks in order; the first Err returns, with what the
\* blocks before it have written left in the config.
merge_env(c, e) ==
    LET a == merge_level(c, e)
    IN  IF ~a.result.ok THEN a
        ELSE merge_environment(merge_service_name(a.config, e).config, e)

S_app == <<"a", "p", "p">>

\* ConfigPlugin::from_env: Ok(config) or the Err of merge_env.
ConfigPlugin_from_env(e) ==
    LET merged == merge_env(LoggingConfig_new(S_app, e), e)
    IN  IF merged.result.ok THEN [ok |-> TRUE, value |-> merged.config]
        ELSE merged.result

---------------------------------------------------------------------------
(* MemoryLogger and FilteringLogger (examples/custom_logger.rs).           *)

MemoryLogger_new == <<>>

StoredLog(r) ==
    [ level |-> r.level,
      message |-> r.message,
      timestamp |-> r.timestamp,
      fields |-> r.fields ]

\* MemoryLogger::log, on the Vec behind the mutex.
MemoryLogger_log(stored, r) == Append(stored, StoredLog(r))

FilteringLogger_new(min_level) == [min_level |-> min_level]

\* A variant that forwards only the records above the threshold.
FilteringLogger_log_above(self, stored, r) ==
    IF LogLevel_cmp("gt", r.level, self.min_level)
    THEN MemoryLogger_log(stored, r)
    ELSE stored

\* FilteringLogger::log, returning the inner logger's Vec after the call.
FilteringLogger_log(self, stored, r) ==
    IF LogLevel_cmp("ge", r.level, self.min_level)
    THEN MemoryLogger_log(stored, r)
    ELSE stored

---------------------------------------------------------------------------
(* Inputs of the model.                                                    *)

Messages ==
    { <<>>,
      <<"b", "o", "o", "m">>,
      <<"a", LF, QUOTE, "b", BSLASH>> }

\* Wall-clock readings, in whole seconds since the Unix epoch.
Timestamps == {9, 1700000000}

\* The messages and the time of the records passed to a FilteringLogger.
FilteredMessages == { <<"b", "o", "o", "m">>, <<>> }
FilteredTimestamps == {1700000000}

Keys == { <<"c", "o", "d", "e">>, <<"a", "_", "b">> }

Values == { Num(500), Str(<<"d", QUOTE, "b">>) }

RequestIds == { <<"a", "b", "c">>, <<"r", "-", "2">> }

ServiceNames == { <<"s", "v", "c">>, <<>> }

\* Values the ENVIRONMENT variable is given.
EnvironmentValues ==
    { S_production,
      <<"P", "R", "O", "D", "U", "C", "T", "I", "O", "N">>,
      <<"P", "r", "o", "d">>,
      S_test,
      <<"T", "e", "S", "t", "I", "n", "G">>,
      <<"s", "t", "a", "g", "i", "n", "g">>,
      <<>> }

EnvNames ==
    { "TYL_LOG_LEVEL", "LOG_LEVEL", "TYL_SERVICE_NAME", "SERVICE_NAME",
      "TYL_ENVIRONMENT", "ENVIRONMENT" }

\* Values the variables are given when all six are followed.
VarValues(name) ==
    CASE name = "TYL_LOG_LEVEL" ->
            { <<"T", "R", "A", "C", "E">>,
              <<"W", "a", "r", "n", "i", "n", "g">>,
              <<"l", "o", "u", "d">> }
      [] name = "LOG_LEVEL" ->
            { <<>>,
              <<"d", "e", "b", "u", "g">>,
              <<"I", "n", "f", "o">>,
              <<"w", "a", "r", "n">>,
              <<"E", "R", "R", "O", "R">> }
      [] name = "TYL_SERVICE_NAME" -> { <<"C", "o", "r", "e", " ">> }
      [] name = "SERVICE_NAME" -> { <<"a", "p", "i">>, <<>> }
      [] name = "TYL_ENVIRONMENT" -> { S_production, <<"q", "a">> }
      [] name = "ENVIRONMENT" ->
            { <<"d", "e", "v">>, <<"T", "e", "s", "t">>,
              <<"s", "t", "a", "g", "i", "n", "g">> }

---------------------------------------------------------------------------
(* State machine.                                                          *)

NoCall == [op |-> "none"]

NoCmp == [op |-> "none", a |-> "Trace", b |-> "Trace", result |-> FALSE]

Init ==
    /\ record = None
    /\ added = <<>>
    /\ stdout = <<>>
    /\ last = NoCall
    /\ env = [name \in EnvNames |-> None]
    /\ config = None
    /\ built = <<>>
    /\ cmp = NoCmp
    /\ filtering = None
    /\ logs = <<>>
    /\ logged = <<>>

\* One record is followed through its writes to standard output: a new one
\* is constructed only while nothing has been written.
Building == stdout = <<>>

\* let record = LogRecord::new(level, message);
New ==
    /\ Building
    /\ \E level \in LogLevel, message \in Messages, now \in Timestamps :
          /\ record' = Some(LogRecord_new(level, message, now))
          /\ last' = [op |-> "new", level |-> level, message |-> message, now |-> now]
    /\ added' = <<>>
    /\ UNCHANGED <<stdout, env, config, built, cmp, filtering, logs, logged>>

\* record.add_field(key, value);
AddField ==
    /\ IsSome(record)
    /\ Len(added) < MaxAdds
    /\ \E key \in Keys, value \in Values :
          /\ record' = Some(add_field(Unwrap(record), key, value))
          /\ added' = Append(added, <<key, value>>)
          /\ last' = [op |-> "add_field", key |-> key, value |-> value]
    /\ UNCHANGED <<stdout, env, config, built, cmp, filtering, logs, logged>>

\* let record = record.with_request_id(id);
WithRequestId ==
    /\ IsSome(record)
    /\ \E id \in RequestIds :
          /\ record' = Some(with_request_id(Unwrap(record), id))
          /\ last' = [op |-> "with_request_id", id |-> id]
    /\ UNCHANGED <<added, stdout, env, config, built, cmp, filtering, logs, logged>>

\* ConsoleLogger::new().log(&record);
ConsoleLog ==
    /\ IsSome(record)
    /\ Len(stdout) < MaxLogs
    /\ stdout' = Append(stdout, ConsoleLogger_log(Unwrap(record)))
    /\ last' = [op |-> "console_log"]
    /\ UNCHANGED <<record, added, env, config, built, cmp, filtering, logs, logged>>

\* JsonLogger::new().log(&record);
JsonLog ==
    /\ IsSome(record)
    /\ Len(stdout) < MaxLogs
    /\ stdout' = Append(stdout, JsonLogger_log(Unwrap(record)))
    /\ last' = [op |-> "json_log"]
    /\ UNCHANGED <<record, added, env, config, built, cmp, filtering, logs, logged>>

\* a comparison of two levels: a > b, a >= b, a < b, a <= b, a == b, a != b
Compare ==
    /\ \E op \in CmpOps, a \in LogLevel, b \in LogLevel :
          cmp' = [op |-> op, a |-> a, b |-> b, result |-> LogLevel_cmp(op, a, b)]
    /\ UNCHANGED <<record, added, stdout, last, env, config, built, filtering, logs, logged>>

\* The process environment changes: ENVIRONMENT is set to a value.
SetEnvironment ==
    /\ \E value \in EnvironmentValues :
          env' = [env EXCEPT !["ENVIRONMENT"] = Some(value)]
    /\ last' = [op |-> "set_var"]
    /\ UNCHANGED <<record, added, stdout, config, built, cmp, filtering, logs, logged>>

\* The process environment changes: ENVIRONMENT is removed.
RemoveEnvironment ==
    /\ IsSome(env["ENVIRONMENT"])
    /\ env' = [env EXCEPT !["ENVIRONMENT"] = None]
    /\ last' = [op |-> "remove_var"]
    /\ UNCHANGED <<record, added, stdout, config, built, cmp, filtering, logs, logged>>

\* let environment = Environment::from_env();
FromEnv ==
    /\ last' = [op |-> "from_env", result |-> Environment_from_env(env)]
    /\ UNCHANGED <<record, added, stdout, env, config, built, cmp, filtering, logs, logged>>

\* let config = LoggingConfig::new(service_name);
ConfigNew ==
    /\ \E service_name \in ServiceNames :
          /\ config' = Some(LoggingConfig_new(service_name, env))
          /\ built' = << [op |-> "new", service_name |-> service_name,
                          environment |-> env["ENVIRONMENT"]] >>
    /\ last' = [op |-> "config_new"]
    /\ UNCHANGED <<record, added, stdout, env, cmp, filtering, logs, logged>>

\* let config = config.with_level(level);
WithLevel ==
    /\ IsSome(config)
    /\ Len(built) <= MaxBuilds
    /\ \E level \in LogLevel :
          /\ config' = Some(with_level(Unwrap(config), level))
          /\ built' = Append(built, [op |-> "with_level", level |-> level])
    /\ last' = [op |-> "with_level"]
    /\ UNCHANGED <<record, added, stdout, env, cmp, filtering, logs, logged>>

\* let config = config.with_environment(environment);
WithEnvironment ==
    /\ IsSome(config)
    /\ Len(built) <= MaxBuilds
    /\ \E environment \in Environment :
          /\ config' = Some(with_environment(Unwrap(config), environment))
          /\ built' = Append(built, [op |-> "with_environment",
                                     environment |-> environment])
    /\ last' = [op |-> "with_environment"]
    /\ UNCHANGED <<record, added, stdout, env, cmp, filtering, logs, logged>>

\* The process environment changes: one of the six variables is set. The
\* variables are set before a config is built; once there is one they are
\* only removed.
SetVar ==
    /\ config = None
    /\ \E name \in EnvNames :
          /\ \/ IsSome(env[name])
             \/ Cardinality({n \in EnvNames : IsSome(env[n])}) < MaxVars
          /\ \E value \in VarValues(name) :
                env' = [env EXCEPT ![name] = Some(value)]
    /\ last' = [op |-> "set_var"]
    /\ UNCHANGED <<record, added, stdout, config, built, cmp, filtering, logs, logged>>

\* The process environment changes: one of the six variables is removed.
RemoveVar ==
    /\ \E name \in EnvNames :
          /\ IsSome(env[name])
          /\ env' = [env EXCEPT ![name] = None]
    /\ last' = [op |-> "remove_var"]
    /\ UNCHANGED <<record, added, stdout, config, built, cmp, filtering, logs, logged>>

\* let result = config.validate();
Validate ==
    /\ IsSome(config)
    /\ last' = [op |-> "validate", result |-> validate(Unwrap(config))]
    /\ UNCHANGED <<record, added, stdout, env, config, built, cmp, filtering, logs, logged>>

\* let result = config.merge_env();
MergeEnv ==
    /\ IsSome(config)
    /\ LET merged == merge_env(Unwrap(config), env)
       IN  /\ config' = Some(merged.config)
           /\ last' = [op |-> "merge_env", result |-> merged.result]
    /\ UNCHANGED <<record, added, stdout, env, built, cmp, filtering, logs, logged>>

\* let result = config.from_env();     (ConfigPlugin::from_env)
PluginFromEnv ==
    /\ IsSome(config)
    /\ last' = [op |-> "plugin_from_env", result |-> ConfigPlugin_from_env(env)]
    /\ UNCHANGED <<record, added, stdout, env, config, built, cmp, filtering, logs, logged>>

Next == New \/ AddField \/ WithRequestId \/ ConsoleLog \/ JsonLog

Spec == Init /\ [][Next]_vars

NextLevel == Compare

SpecLevel == Init /\ [][NextLevel]_vars

NextConfig ==
    \/ SetEnvironment
    \/ RemoveEnvironment
    \/ FromEnv
    \/ ConfigNew
    \/ WithLevel
    \/ WithEnvironment

SpecConfig == Init /\ [][NextConfig]_vars

\* FilteringLogger::new(MemoryLogger::new(), min_level).
FilteringNew ==
    /\ filtering = None
    /\ \E min_level \in LogLevel :
          filtering' = Some(FilteringLogger_new(min_level))
    /\ logs' = MemoryLogger_new
    /\ logged' = <<>>
    /\ UNCHANGED <<record, added, stdout, last, env, config, built, cmp>>

\* filtering_logger.log(&LogRecord::new(level, message)).
FilteringLog ==
    /\ IsSome(filtering)
    /\ Len(logged) < MaxFiltered
    /\ \E level \in LogLevel, message \in FilteredMessages, now \in FilteredTimestamps :
          LET r == LogRecord_new(level, message, now)
          IN  /\ logs' = FilteringLogger_log(Unwrap(filtering), logs, r)
              /\ logged' = Append(logged, r)
    /\ UNCHANGED <<record, added, stdout, last, env, config, built, cmp, filtering>>

NextFilter == FilteringNew \/ FilteringLog

SpecFilter == Init /\ [][NextFilter]_vars

NextPlugin ==
    \/ SetVar
    \/ RemoveVar
    \/ FromEnv
    \/ ConfigNew
    \/ Validate
    \/ MergeEnv
    \/ PluginFromEnv

SpecPlugin == Init /\ [][NextPlugin]_vars

---------------------------------------------------------------------------
(* Properties of LogRecord.                                                *)

Rec == Unwrap(record)

\* C1: LogRecord::new(L, m) yields a record with level() = L, message() = m
\* unchanged (the empty text included), no fields, no request_id, and a
\* timestamp that is the clock reading and is positive.
C1_NewRecord ==
    last.op = "new" =>
        /\ IsSome(record)
        /\ Rec.level = last.level
        /\ Rec.message = last.message
        /\ DOMAIN Rec.fields = {}
        /\ Rec.request_id = None
        /\ Rec.timestamp = last.now
        /\ Rec.timestamp > 0

C1_Witness ==
    /\ last.op = "new"
    /\ IsSome(record)
    /\ Rec.message = <<>>
    /\ Rec.level = "Error"

AddedKeys == {added[i][1] : i \in 1..Len(added)}

\* The value given in the most recent add_field call for the key.
LatestAdded(key) ==
    LET i == CHOOSE j \in 1..Len(added) :
                 /\ added[j][1] = key
                 /\ \A k \in (j + 1)..Len(added) : added[k][1] # key
    IN  added[i][2]

\* C2: after any sequence of add_field calls, fields() holds exactly the keys
\* that were added, each mapped to the value of the most recent add_field for
\* it, and fields().len() is the number of distinct keys added.
C2_FieldsLatest ==
    IsSome(record) =>
        /\ DOMAIN Rec.fields = AddedKeys
        /\ \A key \in AddedKeys : Rec.fields[key] = LatestAdded(key)
        /\ Cardinality(DOMAIN Rec.fields) = Cardinality(AddedKeys)

C2_Witness ==
    /\ IsSome(record)
    /\ Len(added) = 2
    /\ added[1][1] = added[2][1]
    /\ added[1][2] # added[2][2]
    /\ Cardinality(DOMAIN Rec.fields) = 1

\* C3: r.with_request_id(id) returns a record whose request_id() is Some(id)
\* and whose level, message, timestamp and fields are those of r.
C3_WithRequestId ==
    [][ last'.op = "with_request_id" =>
            /\ IsSome(record) /\ IsSome(record')
            /\ record'[1].request_id = Some(last'.id)
            /\ record'[1].level = record[1].level
            /\ record'[1].message = record[1].message
            /\ record'[1].timestamp = record[1].timestamp
            /\ record'[1].fields = record[1].fields ]_vars

\* with_request_id has acted on a record that carries fields.
C3_Witness ==
    /\ last.op = "with_request_id"
    /\ IsSome(record)
    /\ Rec.request_id = Some(last.id)
    /\ DOMAIN Rec.fields # {}

\* C4 as stated: once request_id is set, no later operation on that record
\* (add_field, a further with_request_id, log) changes request_id().
C4_Original ==
    [][ (IsSome(record) /\ IsSome(record[1].request_id) /\ last'.op # "new") =>
            record'[1].request_id = record[1].request_id ]_vars

\* C4 as amended: once request_id is set, add_field and log leave it as it
\* is, and a further with_request_id(id) replaces it by id.
C4_RequestIdKept ==
    [][ (IsSome(record) /\ IsSome(record[1].request_id) /\ last'.op # "new") =>
            IF last'.op = "with_request_id"
            THEN record'[1].request_id = Some(last'.id)
            ELSE record'[1].request_id = record[1].request_id ]_vars

\* The record has been passed to log, and add_field has then acted on it
\* while its request_id was set.
C4_Witness ==
    /\ IsSome(record)
    /\ IsSome(Rec.request_id)
    /\ last.op = "add_field"
    /\ Len(stdout) = 1

---------------------------------------------------------------------------
(* Properties of LogLevel.                                                 *)

LevelSequence == <<"Trace", "Debug", "Info", "Warn", "Error">>

Position(level) == CHOOSE i \in 1..Len(LevelSequence) : LevelSequence[i] = level

\* C5: LogLevel comparison is the strict total order of the positions in
\* Trace, Debug, Info, Warn, Error: a > b exactly when a comes later than b,
\* a == b exactly when they are the same variant, and the other operators
\* agree with these two.
C5_LevelOrder ==
    /\ cmp.op = "gt" => (cmp.result <=> Position(cmp.a) > Position(cmp.b))
    /\ cmp.op = "eq" => (cmp.result <=> cmp.a = cmp.b)
    /\ cmp.op = "lt" => (cmp.result <=> Position(cmp.a) < Position(cmp.b))
    /\ cmp.op = "ge" => (cmp.result <=> Position(cmp.a) >= Position(cmp.b))
    /\ cmp.op = "le" => (cmp.result <=> Position(cmp.a) <= Position(cmp.b))
    /\ cmp.op = "ne" => (cmp.result <=> cmp.a # cmp.b)

C5_Witness ==
    /\ cmp.op = "gt"
    /\ cmp.a = "Warn"
    /\ cmp.b = "Info"
    /\ cmp.result

---------------------------------------------------------------------------
(* Properties of Environment and LoggingConfig.                            *)

EqualIgnoringCase(s, t) ==
    /\ Len(s) = Len(t)
    /\ \A i \in 1..Len(s) : char_to_uppercase(s[i]) = char_to_uppercase(t[i])

\* The environment the claim assigns to a value of the variable.
Detected(value) ==
    IF /\ IsSome(value)
       /\ \/ EqualIgnoringCase(Unwrap(value), S_production)
          \/ EqualIgnoringCase(Unwrap(value), S_prod)
    THEN "Production"
    ELSE IF /\ IsSome(value)
            /\ \/ EqualIgnoringCase(Unwrap(value), S_test)
               \/ EqualIgnoringCase(Unwrap(value), S_testing)
    THEN "Test"
    ELSE "Development"

\* C9: Environment::from_env() returns Production for "production" or "prod"
\* ignoring case, Test for "test" or "testing" ignoring case, Development
\* for every other value and for an absent variable; it always returns one
\* of the three, and the result is that of the variable's value at the time
\* of the call.
C9_FromEnv ==
    last.op = "from_env" =>
        /\ last.result \in Environment
        /\ last.result = Detected(env["ENVIRONMENT"])

\* from_env has read a mixed-case value.
C9_Witness ==
    /\ last.op = "from_env"
    /\ env["ENVIRONMENT"] = Some(<<"T", "e", "S", "t", "I", "n", "G">>)
    /\ last.result = "Test"

Cfg == Unwrap(config)

BuiltWith(op) == {i \in 1..Len(built) : built[i].op = op}

Latest(S) == CHOOSE i \in S : \A j \in S : j <= i

\* C10: LoggingConfig::new(s) followed by any sequence of with_level and
\* with_environment calls has service_name() = s, level() the level of the
\* last with_level call (Info if there was none) and environment() the value
\* of the last with_environment call (the environment detected from the
\* variable as it was at construction if there was none).
C10_Builder ==
    IsSome(config) =>
        /\ Cfg.service_name = built[1].service_name
        /\ Cfg.level =
              IF BuiltWith("with_level") = {} THEN "Info"
              ELSE built[Latest(BuiltWith("with_level"))].level
        /\ Cfg.environment =
              IF BuiltWith("with_environment") = {}
              THEN Detected(built[1].environment)
              ELSE built[Latest(BuiltWith("with_environment"))].environment

\* Two with_level calls on a config built while ENVIRONMENT was "Prod", the
\* variable having changed since.
C10_Witness ==
    /\ IsSome(config)
    /\ Len(built) = 3
    /\ built[1].environment = Some(<<"P", "r", "o", "d">>)
    /\ built[2].op = "with_level"
    /\ built[3].op = "with_level"
    /\ built[2].level # built[3].level
    /\ env["ENVIRONMENT"] = Some(S_test)
    /\ Cfg.environment = "Production"

---------------------------------------------------------------------------
(* Properties of the adapters.                                             *)

\* The text the most recent write put on standard output.
Written == stdout[Len(stdout)]

\* The level literals, one per level.
LevelLiteral(level) ==
    CASE level = "Trace" -> <<"T", "R", "A", "C", "E">>
      [] level = "Debug" -> <<"D", "E", "B", "U", "G">>
      [] level = "Info" -> <<"I", "N", "F", "O">>
      [] level = "Warn" -> <<"W", "A", "R", "N">>
      [] level = "Error" -> <<"E", "R", "R", "O", "R">>

IsDigit(c) == \E i \in 1..Len(Digits) : Digits[i] = c

DigitValue(c) == (CHOOSE i \in 1..Len(Digits) : Digits[i] = c) - 1

\* The number a run of decimal digits denotes.
RECURSIVE DecimalValue(_)
DecimalValue(ds) ==
    IF ds = <<>> THEN 0
    ELSE 10 * DecimalValue(SubSeq(ds, 1, Len(ds) - 1)) + DigitValue(ds[Len(ds)])

IsDecimalOf(ds, n) ==
    /\ Len(ds) >= 1
    /\ \A i \in 1..Len(ds) : IsDigit(ds[i])
    /\ Len(ds) > 1 => ds[1] # "0"
    /\ DecimalValue(ds) = n

\* Records that agree with r on level, message and timestamp.
SameHeadline(r) ==
    { [r EXCEPT !.fields = f, !.request_id = q] :
        f \in {HashMap_new} \cup {HashMap_insert(HashMap_new, k, v) : k \in Keys, v \in Values},
        q \in {None} \cup {Some(id) : id \in RequestIds} }

\* C6: what ConsoleLogger.log writes is '[' + the decimal timestamp + '] ' +
\* the level literal + ': ' + the raw message (and the line feed that ends
\* it), the literals of distinct levels being distinct; records that agree
\* on timestamp, level and message but differ in fields or request_id give
\* the same output.
C6_ConsoleFormat ==
    last.op = "console_log" =>
        LET text == Written
            close == CHOOSE i \in 1..Len(text) :
                        /\ text[i] = "]"
                        /\ \A j \in 1..(i - 1) : text[j] # "]"
        IN  /\ text[1] = "["
            /\ IsDecimalOf(SubSeq(text, 2, close - 1), Rec.timestamp)
            /\ SubSeq(text, close, Len(text)) =
                  <<"]", " ">> \o LevelLiteral(Rec.level) \o <<":", " ">>
                  \o Rec.message \o <<LF>>
            /\ \A other \in LogLevel :
                  other # Rec.level => format_level(other) # format_level(Rec.level)
            /\ \A r \in SameHeadline(Rec) : ConsoleLogger_log(r) = text

\* The console logger has written a record that carries fields and a
\* request_id and whose timestamp has several digits.
C6_Witness ==
    /\ last.op = "console_log"
    /\ DOMAIN Rec.fields # {}
    /\ IsSome(Rec.request_id)
    /\ Rec.timestamp >= 10

LineFeeds(text) == Cardinality({i \in 1..Len(text) : text[i] = LF})

\* C7: every call to log on ConsoleLogger or JsonLogger writes exactly one
\* line, whatever the message text is, so that standard output holds one
\* record per line.
C7_OneLinePerCall ==
    \A i \in 1..Len(stdout) :
        /\ LineFeeds(stdout[i]) = 1
        /\ stdout[i][Len(stdout[i])] = LF

---------------------------------------------------------------------------
(* Reading a JSON text back.                                               *)

Invalid == [t |-> "invalid"]

Json_unescape(c) == IF c = "n" THEN LF ELSE c

\* The characters of a string whose opening quote has been read; i is the
\* position of the next character.
RECURSIVE ReadString(_, _, _)
ReadString(text, i, acc) ==
    IF i > Len(text) THEN [v |-> Invalid, next |-> i]
    ELSE IF text[i] = QUOTE THEN [v |-> Str(acc), next |-> i + 1]
    ELSE IF text[i] = BSLASH
    THEN IF i + 1 <= Len(text) /\ text[i + 1] \in {QUOTE, BSLASH, "n"}
         THEN ReadString(text, i + 2, Append(acc, Json_unescape(text[i + 1])))
         ELSE [v |-> Invalid, next |-> i]
    ELSE IF text[i] = LF THEN [v |-> Invalid, next |-> i]
    ELSE ReadString(text, i + 1, Append(acc, text[i]))

RECURSIVE ReadDigits(_, _)
ReadDigits(text, i) ==
    IF i <= Len(text) /\ IsDigit(text[i]) THEN ReadDigits(text, i + 1) ELSE i

RECURSIVE ReadValue(_, _)
RECURSIVE ReadMembers(_, _, _)
ReadMembers(text, i, acc) ==
    IF i > Len(text) \/ text[i] # QUOTE THEN [v |-> Invalid, next |-> i]
    ELSE LET key == ReadString(text, i + 1, <<>>)
         IN  IF key.v = Invalid \/ key.next > Len(text) \/ text[key.next] # ":"
             THEN [v |-> Invalid, next |-> key.next]
             ELSE LET val == ReadValue(text, key.next + 1)
                      members == HashMap_insert(acc, key.v.s, val.v)
                  IN  IF val.v = Invalid \/ val.next > Len(text)
                         \/ key.v.s \in DOMAIN acc
                      THEN [v |-> Invalid, next |-> val.next]
                      ELSE IF text[val.next] = ","
                      THEN ReadMembers(text, val.next + 1, members)
                      ELSE IF text[val.next] = "}"
                      THEN [v |-> Obj(members), next |-> val.next + 1]
                      ELSE [v |-> Invalid, next |-> val.next]

ReadValue(text, i) ==
    IF i > Len(text) THEN [v |-> Invalid, next |-> i]
    ELSE IF text[i] = "{"
    THEN IF i + 1 <= Len(text) /\ text[i + 1] = "}"
         THEN [v |-> Obj(HashMap_new), next |-> i + 2]
         ELSE ReadMembers(text, i + 1, HashMap_new)
    ELSE IF text[i] = QUOTE THEN ReadString(text, i + 1, <<>>)
    ELSE IF IsDigit(text[i])
    THEN LET stop == ReadDigits(text, i)
         IN  [v |-> Num(DecimalValue(SubSeq(text, i, stop - 1))), next |-> stop]
    ELSE IF i + 3 <= Len(text) /\ SubSeq(text, i, i + 3) = <<"n", "u", "l", "l">>
    THEN [v |-> Null, next |-> i + 4]
    ELSE [v |-> Invalid, next |-> i]

\* The value a text denotes when the whole of it is one JSON value.
Json_parse(text) ==
    LET read == ReadValue(text, 1)
    IN  IF read.next = Len(text) + 1 THEN read.v ELSE Invalid

\* C8: JsonLogger.log emits one JSON object with exactly the keys timestamp,
\* level, message, fields and request_id: the record's integer timestamp,
\* the level literal, the message, an object holding exactly the record's
\* field entries, and the record's id string or null when it has none.
C8_JsonObject ==
    last.op = "json_log" =>
        LET text == Written
            object == Json_parse(SubSeq(text, 1, Len(text) - 1))
        IN  /\ text[Len(text)] = LF
            /\ object.t = "obj"
            /\ DOMAIN object.o =
                  {K_timestamp, K_level, K_message, K_fields, K_request_id}
            /\ object.o[K_timestamp] = Num(Rec.timestamp)
            /\ object.o[K_level] = Str(LevelLiteral(Rec.level))
            /\ object.o[K_message] = Str(Rec.message)
            /\ object.o[K_fields].t = "obj"
            /\ DOMAIN object.o[K_fields].o = DOMAIN Rec.fields
            /\ \A key \in DOMAIN Rec.fields :
                  object.o[K_fields].o[key] = Rec.fields[key]
            /\ object.o[K_request_id] =
                  IF IsSome(Rec.request_id) THEN Str(Unwrap(Rec.request_id))
                  ELSE Null

\* The JSON logger has written a record with two fields, no request_id and a
\* message that holds a line feed, a quote and a backslash.
C8_Witness ==
    /\ last.op = "json_log"
    /\ Cardinality(DOMAIN Rec.fields) = 2
    /\ Rec.request_id = None
    /\ Rec.message = <<"a", LF, QUOTE, "b", BSLASH>>

---------------------------------------------------------------------------
(* Properties of the ConfigPlugin operations.                              *)

\* C11: validate() returns a validation error exactly when service_name is
\* the empty string and succeeds for every other service_name, whatever the
\* level and the environment are, and leaves the config unchanged.
C11_Validate ==
    [][ last'.op = "validate" =>
            /\ IsSome(config)
            /\ config' = config
            /\ config[1].service_name = <<>> =>
                  /\ ~last'.result.ok
                  /\ last'.result.kind = "validation"
            /\ config[1].service_name # <<>> => last'.result.ok ]_vars

\* validate has refused a config whose level and environment are not the
\* defaults.
C11_Witness ==
    /\ last.op = "validate"
    /\ ~last.result.ok
    /\ Cfg.service_name = <<>>
    /\ Cfg.level = "Debug"
    /\ Cfg.environment = "Production"

\* The value of a setting: that of the prefixed variable when it is set,
\* else that of the bare one.
Consulted(prefixed, bare) ==
    IF IsSome(env[prefixed]) THEN env[prefixed] ELSE env[bare]

LevelValue == Consulted("TYL_LOG_LEVEL", "LOG_LEVEL")
ServiceNameValue == Consulted("TYL_SERVICE_NAME", "SERVICE_NAME")
EnvironmentValue == Consulted("TYL_ENVIRONMENT", "ENVIRONMENT")

\* The level a log-level value names, ignoring case; "unknown" for any other.
LevelNamed(value) ==
    LET lower == to_lowercase(value)
    IN  IF lower = <<"t", "r", "a", "c", "e">> THEN "Trace"
        ELSE IF lower = <<"d", "e", "b", "u", "g">> THEN "Debug"
        ELSE IF lower = <<"i", "n", "f", "o">> THEN "Info"
        ELSE IF lower = <<"w", "a", "r", "n">> THEN "Warn"
        ELSE IF lower = <<"w", "a", "r", "n", "i", "n", "g">> THEN "Warn"
        ELSE IF lower = <<"e", "r", "r", "o", "r">> THEN "Error"
        ELSE "unknown"

\* The environment a runtime-environment value names for merge_env, ignoring
\* case; "unknown" for any other.
EnvironmentNamed(value) ==
    IF \/ EqualIgnoringCase(value, S_development)
       \/ EqualIgnoringCase(value, <<"d", "e", "v">>)
    THEN "Development"
    ELSE IF \/ EqualIgnoringCase(value, S_production)
            \/ EqualIgnoringCase(value, S_prod)
    THEN "Production"
    ELSE IF \/ EqualIgnoringCase(value, S_test)
            \/ EqualIgnoringCase(value, S_testing)
    THEN "Test"
    ELSE "unknown"

InvalidLevel(value) == IsSome(value) /\ LevelNamed(Unwrap(value)) = "unknown"

InvalidEnvironment(value) ==
    IsSome(value) /\ EnvironmentNamed(Unwrap(value)) = "unknown"

IsConfigurationError(result) == ~result.ok /\ result.kind = "configuration"

\* What C12 says of the log level at a merge_env step.
C12_LevelClauses ==
    /\ (IsSome(LevelValue) /\ ~InvalidLevel(LevelValue)) =>
          config'[1].level = LevelNamed(Unwrap(LevelValue))
    /\ InvalidLevel(LevelValue) => IsConfigurationError(last'.result)
    /\ ~IsSome(LevelValue) => config'[1].level = config[1].level

\* C12 as stated: merge_env sets level from a log-level value that names one
\* (ignoring case, WARNING being Warn), returns a configuration error on any
\* other log-level value, stores a service-name value verbatim, and leaves a
\* field as it is when its variable is absent.
C12_Original ==
    [][ last'.op = "merge_env" =>
            /\ C12_LevelClauses
            /\ IsSome(ServiceNameValue) =>
                  config'[1].service_name = Unwrap(ServiceNameValue)
            /\ ~IsSome(ServiceNameValue) =>
                  config'[1].service_name = config[1].service_name ]_vars

\* C12 as amended: the same, except that the service-name value is stored
\* only when the log-level value is absent or names a level; on an invalid
\* log-level value the service name is left as it is.
C12_MergeOverlay ==
    [][ last'.op = "merge_env" =>
            /\ C12_LevelClauses
            /\ (IsSome(ServiceNameValue) /\ ~InvalidLevel(LevelValue)) =>
                  config'[1].service_name = Unwrap(ServiceNameValue)
            /\ (~IsSome(ServiceNameValue) \/ InvalidLevel(LevelValue)) =>
                  config'[1].service_name = config[1].service_name ]_vars

\* merge_env has succeeded with no log-level variable set on a config whose
\* level an earlier overlay had set, and has stored a service name with an
\* upper-case letter and a trailing space as it is.
C12_Witness ==
    /\ last.op = "merge_env"
    /\ last.result.ok
    /\ ~IsSome(LevelValue)
    /\ Cfg.level = "Warn"
    /\ ServiceNameValue = Some(<<"C", "o", "r", "e", " ">>)
    /\ Cfg.service_name = <<"C", "o", "r", "e", " ">>

\* C13 as stated: in every operation that derives config from environment
\* variables (Environment::from_env, LoggingConfig::new,
\* ConfigPlugin::from_env, merge_env) an invalid log-level or
\* runtime-environment literal is surfaced as a configuration error.
C13_Original ==
    /\ last.op \in {"from_env", "config_new"} =>
          ~InvalidEnvironment(env["ENVIRONMENT"])
    /\ last.op \in {"merge_env", "plugin_from_env"} =>
          ((InvalidLevel(LevelValue) \/ InvalidEnvironment(EnvironmentValue))
              => IsConfigurationError(last.result))

\* C13 as amended: merge_env and ConfigPlugin::from_env return a
\* configuration error exactly when the log-level or the runtime-environment
\* value they consult is invalid; Environment::from_env and
\* LoggingConfig::new never fail and take Development for an ENVIRONMENT
\* value they do not recognise.
C13_InvalidLiterals ==
    /\ last.op \in {"merge_env", "plugin_from_env"} =>
          IF InvalidLevel(LevelValue) \/ InvalidEnvironment(EnvironmentValue)
          THEN IsConfigurationError(last.result)
          ELSE last.result.ok
    /\ (last.op = "from_env" /\ InvalidEnvironment(env["ENVIRONMENT"])) =>
          last.result = "Development"
    /\ (last.op = "config_new" /\ InvalidEnvironment(env["ENVIRONMENT"])) =>
          /\ IsSome(config)
          /\ Cfg.environment = "Development"

\* ConfigPlugin::from_env has returned a configuration error for an invalid
\* ENVIRONMENT while the log level was valid.
C13_Witness ==
    /\ last.op = "plugin_from_env"
    /\ IsConfigurationError(last.result)
    /\ env["LOG_LEVEL"] = Some(<<"d", "e", "b", "u", "g">>)
    /\ ~IsSome(env["TYL_LOG_LEVEL"])
    /\ ~IsSome(env["TYL_ENVIRONMENT"])
    /\ env["ENVIRONMENT"] = Some(<<"s", "t", "a", "g", "i", "n", "g">>)

BothSet(prefixed, bare) == IsSome(env[prefixed]) /\ IsSome(env[bare])

\* C14: for the log level, the service name and the runtime environment,
\* when both the TYL_-prefixed variable and its bare alias are set the value
\* of the prefixed one is used, in merge_env and in Environment::from_env.
C14_PrefixedFirst ==
    /\ (last.op = "merge_env" /\ last.result.ok) =>
          /\ BothSet("TYL_LOG_LEVEL", "LOG_LEVEL") =>
                Cfg.level = LevelNamed(Unwrap(env["TYL_LOG_LEVEL"]))
          /\ BothSet("TYL_SERVICE_NAME", "SERVICE_NAME") =>
                Cfg.service_name = Unwrap(env["TYL_SERVICE_NAME"])
          /\ BothSet("TYL_ENVIRONMENT", "ENVIRONMENT") =>
                Cfg.environment = EnvironmentNamed(Unwrap(env["TYL_ENVIRONMENT"]))
    /\ (last.op = "from_env" /\ BothSet("TYL_ENVIRONMENT", "ENVIRONMENT")) =>
          last.result = Detected(env["TYL_ENVIRONMENT"])

\* C16: merge_env processes the log level, then the service name, then the
\* runtime environment and returns at the first invalid value: when it fails
\* on the log level the config is unchanged; when it fails on the runtime
\* environment the level and service-name overlays of the same call are in
\* the config and the environment is unchanged.
C16_MergeOrder ==
    [][ last'.op = "merge_env" =>
            /\ InvalidLevel(LevelValue) =>
                  /\ IsConfigurationError(last'.result)
                  /\ last'.result.message = <<"invalid log level: ", Unwrap(LevelValue)>>
                  /\ config' = config
            /\ (~InvalidLevel(LevelValue) /\ InvalidEnvironment(EnvironmentValue)) =>
                  /\ IsConfigurationError(last'.result)
                  /\ last'.result.message =
                        <<"invalid environment: ", Unwrap(EnvironmentValue)>>
                  /\ config'[1].level =
                        IF IsSome(LevelValue) THEN LevelNamed(Unwrap(LevelValue))
                        ELSE config[1].level
                  /\ config'[1].service_name =
                        IF IsSome(ServiceNameValue) THEN Unwrap(ServiceNameValue)
                        ELSE config[1].service_name
                  /\ config'[1].environment = config[1].environment ]_vars

\* merge_env has failed on the runtime environment with a level and a
\* service-name overlay in the same environment, both now in the config.
C16_Witness ==
    /\ last.op = "merge_env"
    /\ IsConfigurationError(last.result)
    /\ last.result.message = <<"invalid environment: ", <<"q", "a">> >>
    /\ env["LOG_LEVEL"] = Some(<<"E", "R", "R", "O", "R">>)
    /\ env["SERVICE_NAME"] = Some(<<"a", "p", "i">>)
    /\ Cfg.level = "Error"
    /\ Cfg.service_name = <<"a", "p", "i">>

---------------------------------------------------------------------------
(* Properties of the FilteringLogger.                                      *)

\* The records of a history whose level is at or above a threshold, in the
\* order of the history, as the collector stores them.
RECURSIVE AtOrAbove(_, _)
AtOrAbove(history, threshold) ==
    IF history = <<>> THEN <<>>
    ELSE LET rest == AtOrAbove(Tail(history), threshold)
             r == Head(history)
         IN  IF Position(r.level) >= Position(threshold)
             THEN <<[ level |-> r.level, message |-> r.message,
                      timestamp |-> r.timestamp, fields |-> r.fields ]>> \o rest
             ELSE rest

\* C15: after any sequence of log calls on a FilteringLogger with threshold
\* min_level that wraps an in-memory collector, the collector holds exactly
\* the records whose level is >= min_level, in the order they were logged
\* and each once; no record below the threshold is in it.
C15_Filtering ==
    IsSome(filtering) =>
        /\ logs = AtOrAbove(logged, filtering[1].min_level)
        /\ \A i \in 1..Len(logs) :
              Position(logs[i].level) >= Position(filtering[1].min_level)

\* A logger with threshold Warn has been given an Error, an Info and a Warn
\* record, and its collector holds the Error and the Warn one in that order.
C15_Witness ==
    /\ filtering = Some([min_level |-> "Warn"])
    /\ Len(logged) = 3
    /\ logged[1].level = "Error"
    /\ logged[2].level = "Info"
    /\ logged[3].level = "Warn"
    /\ Len(logs) = 2
    /\ logs[1].level = "Error"
    /\ logs[2].level = "Warn"

=============================================================================
